---- MODULE Spec2Model ----
(***************************************************************************)
(* Scene-script pipeline of agents.py: interpret_prompt, web_search,       *)
(* plan_scene, generate_dialogue, add_actions, structure_script and        *)
(* run_pipeline, with the LLM and search providers as the environment.     *)
(*                                                                         *)
(* Python str values are sequences of one-character strings, so that       *)
(* strip, split, rstrip, lower, capitalize, str() and f-string formatting  *)
(* are computed rather than assumed.  JSON values (what json.loads yields  *)
(* and what the stages build) are records tagged by the field t.           *)
(***************************************************************************)
EXTENDS Integers, Sequences, FiniteSets, TLC

\* ------------------------------------------------------------------ text
\* ' in '
L_in == <<" ", "i", "n", " ">>
\* 'unknown'
L_unknown == <<"u", "n", "k", "n", "o", "w", "n">>
\* 'teacher'
L_teacher == <<"t", "e", "a", "c", "h", "e", "r">>
\* 'student'
L_student == <<"s", "t", "u", "d", "e", "n", "t">>
\* 'Teacher'
L_Teacher == <<"T", "e", "a", "c", "h", "e", "r">>
\* 'Student'
L_Student == <<"S", "t", "u", "d", "e", "n", "t">>
\* 'Narrator'
L_Narrator == <<"N", "a", "r", "r", "a", "t", "o", "r">>
\* 'narrator'
L_narrator == <<"n", "a", "r", "r", "a", "t", "o", "r">>
\* 'conversation'
L_conversation == <<"c", "o", "n", "v", "e", "r", "s", "a", "t", "i", "o", "n">>
\* 'Facts about '
L_facts == <<"F", "a", "c", "t", "s", " ", "a", "b", "o", "u", "t", " ">>
\* ' gleaned from a web search.'
L_gleaned == <<" ", "g", "l", "e", "a", "n", "e", "d", " ", "f", "r", "o", "m", " ", "a", " ", "w", "e", "b", " ", "s", "e", "a", "r", "c", "h", ".">>
\* 'Information about '
L_info == <<"I", "n", "f", "o", "r", "m", "a", "t", "i", "o", "n", " ", "a", "b", "o", "u", "t", " ">>
\* ' for background.'
L_background == <<" ", "f", "o", "r", " ", "b", "a", "c", "k", "g", "r", "o", "u", "n", "d", ".">>
\* 'intro'
L_intro == <<"i", "n", "t", "r", "o">>
\* 'concept'
L_concept == <<"c", "o", "n", "c", "e", "p", "t">>
\* 'reaction'
L_reaction == <<"r", "e", "a", "c", "t", "i", "o", "n">>
\* 'wrap'
L_wrap == <<"w", "r", "a", "p">>
\* 'wide'
L_wide == <<"w", "i", "d", "e">>
\* 'close-up'
L_closeup == <<"c", "l", "o", "s", "e", "-", "u", "p">>
\* 'medium'
L_medium == <<"m", "e", "d", "i", "u", "m">>
\* 'This is line '
L_line == <<"T", "h", "i", "s", " ", "i", "s", " ", "l", "i", "n", "e", " ">>
\* ' about '
L_about == <<" ", "a", "b", "o", "u", "t", " ">>
\* '.'
L_dot == <<".">>
\* 'dialogue'
L_dialogue == <<"d", "i", "a", "l", "o", "g", "u", "e">>
\* 'action'
L_action == <<"a", "c", "t", "i", "o", "n">>
\* 'neutral'
L_neutral == <<"n", "e", "u", "t", "r", "a", "l">>
\* ' gestures while speaking.'
L_gestures == <<" ", "g", "e", "s", "t", "u", "r", "e", "s", " ", "w", "h", "i", "l", "e", " ", "s", "p", "e", "a", "k", "i", "n", "g", ".">>
\* 'after'
L_after == <<"a", "f", "t", "e", "r">>
\* 'None'
L_None == <<"N", "o", "n", "e">>
\* '[]'
L_brackets == <<"[", "]">>
\* '{}'
L_braces == <<"{", "}">>
Lowers == <<"a", "b", "c", "d", "e", "f", "g", "h", "i", "j", "k", "l", "m", "n", "o", "p", "q", "r", "s", "t", "u", "v", "w", "x", "y", "z">>
Uppers == <<"A", "B", "C", "D", "E", "F", "G", "H", "I", "J", "K", "L", "M", "N", "O", "P", "Q", "R", "S", "T", "U", "V", "W", "X", "Y", "Z">>
Digits == <<"0", "1", "2", "3", "4", "5", "6", "7", "8", "9">>

\* position of c in the sequence s, 0 when absent
IndexIn(c, s) ==
  IF \E i \in 1..Len(s) : s[i] = c
  THEN CHOOSE i \in 1..Len(s) : s[i] = c /\ \A j \in 1..(i - 1) : s[j] # c
  ELSE 0

lower_char(c) == LET i == IndexIn(c, Uppers) IN IF i > 0 THEN Lowers[i] ELSE c
upper_char(c) == LET i == IndexIn(c, Lowers) IN IF i > 0 THEN Uppers[i] ELSE c

\* the text left in the case it came in
lower_unchanged(s) == s

\* str.lower()
lower(s) == [i \in 1..Len(s) |-> lower_char(s[i])]

\* str.capitalize(): first character upper-cased, all the others lower-cased
capitalize(s) ==
  [i \in 1..Len(s) |-> IF i = 1 THEN upper_char(s[i]) ELSE lower_char(s[i])]

RECURSIVE lstrip(_, _)
\* str.lstrip(c): every leading c is removed
lstrip(s, c) == IF s # <<>> /\ Head(s) = c THEN lstrip(Tail(s), c) ELSE s

RECURSIVE rstrip(_, _)
\* str.rstrip(c): every trailing c is removed
rstrip(s, c) ==
  IF s # <<>> /\ s[Len(s)] = c THEN rstrip(SubSeq(s, 1, Len(s) - 1), c) ELSE s

\* str.strip(): whitespace removed at both ends
strip(s) == rstrip(lstrip(s, " "), " ")

\* str.find(sub) + 1: first position where sub occurs in s, 0 when it does not
find(s, sub) ==
  LET hits == {i \in 1..(Len(s) - Len(sub) + 1) : SubSeq(s, i, i + Len(sub) - 1) = sub}
  IN IF hits = {} THEN 0 ELSE CHOOSE i \in hits : \A j \in hits : i <= j

\* sub in s
contains(s, sub) == find(s, sub) > 0

\* the split made at the last occurrence of the separator
split_last(s, sep) ==
  LET hits == {i \in 1..(Len(s) - Len(sep) + 1) : SubSeq(s, i, i + Len(sep) - 1) = sep}
      i == CHOOSE h \in hits : \A j \in hits : j <= h
  IN <<SubSeq(s, 1, i - 1), SubSeq(s, i + Len(sep), Len(s))>>

\* s.split(sep, 1) for a separator that occurs in s
split_once(s, sep) ==
  LET i == find(s, sep)
  IN <<SubSeq(s, 1, i - 1), SubSeq(s, i + Len(sep), Len(s))>>

RECURSIVE str(_)
\* str(n) of an int
str(n) ==
  IF n < 0 THEN <<"-">> \o str(0 - n)
  ELSE IF n < 10 THEN <<Digits[n + 1]>>
  ELSE str(n \div 10) \o <<Digits[(n % 10) + 1]>>

\* len(text.split()): the number of maximal runs of non-whitespace
word_count(s) ==
  Cardinality({i \in 1..Len(s) : s[i] # " " /\ (i = 1 \/ s[i - 1] = " ")})

\* ------------------------------------------------------------------ JSON
JObj(fields) == [t |-> "obj", f |-> fields]
JList(elems) == [t |-> "list", e |-> elems]
JStr(chars) == [t |-> "str", s |-> chars]
JInt(n) == [t |-> "int", n |-> n]
\* a float, kept in hundredths
JFloat(h) == [t |-> "float", h |-> h]
JNull == [t |-> "null"]
EmptyObj == JObj(<<>>)

\* outcome of evaluating an expression: a value or a raised exception
Ok(v) == [ok |-> TRUE, v |-> v]
Raise(e) == [ok |-> FALSE, exc |-> e]

\* v[k] for a str key k
Subscript(v, k) ==
  IF v.t = "obj"
  THEN IF k \in DOMAIN v.f THEN Ok(v.f[k]) ELSE Raise("KeyError")
  ELSE Raise("TypeError")

\* f"{v}"; of lists and dicts only the empty ones reach a format field
Format(v) ==
  CASE v.t = "str" -> v.s
    [] v.t = "int" -> str(v.n)
    [] v.t = "null" -> L_None
    [] v.t = "list" -> L_brackets
    [] OTHER -> L_braces

\* iter(v) is defined
Iterable(v) == v.t \in {"list", "obj", "str"}

\* the items iter(v) yields; a dict yields its keys and a str its characters,
\* all of them str values (only their type is used: each use subscripts the
\* item with a str key)
Items(v) ==
  CASE v.t = "list" -> v.e
    [] v.t = "str" -> [i \in 1..Len(v.s) |-> JStr(<<v.s[i]>>)]
    [] OTHER -> [i \in 1..Cardinality(DOMAIN v.f) |-> JStr(<<>>)]

\* ------------------------------------------------------------------ state
VARIABLES
  keys,      \* the credentials set in the environment when the module loads
  pc,        \* where run_pipeline stands
  prompt,    \* run_pipeline's argument
  meta,      \* run_pipeline's local meta
  refs,      \* run_pipeline's local refs
  plan,      \* run_pipeline's local plan
  dialogue,  \* run_pipeline's local dialogue
  actions,   \* run_pipeline's local actions
  result,    \* what run_pipeline returned, or the exception it raised
  calls,     \* the stage calls of this invocation: stage, arguments, path, output
  net,       \* the outbound requests of this invocation
  seen,      \* what a recording caller got back, by prompt
  body,      \* the body of the request generate_scene is handling
  response   \* the response generate_scene gave to it

vars == <<keys, pc, prompt, meta, refs, plan, dialogue, actions, result, calls, net, seen,
          body, response>>

KeyNames == {"GROQ_API_KEY", "OPENAI_API_KEY", "ANTHROPIC_API_KEY", "LETTA_API_KEY"}

\* GROQ_API_KEY read with a placeholder default: set whatever the environment
GROQ_API_KEY_defaulted == TRUE

GROQ_API_KEY == "GROQ_API_KEY" \in keys
OPENAI_API_KEY == "OPENAI_API_KEY" \in keys
ANTHROPIC_API_KEY == "ANTHROPIC_API_KEY" \in keys
LETTA_API_KEY == "LETTA_API_KEY" \in keys

\* openai.api_base as set at import time
api_base == IF GROQ_API_KEY THEN "groq" ELSE IF OPENAI_API_KEY THEN "openai" ELSE "unset"

\* a local that has not been assigned yet
Unset == [t |-> "unset"]

\* ------------------------------------------------------------ providers
\* the text of a response: JSON text stands for the value it parses to
Garbage == [doc |-> FALSE]
Doc(v) == [doc |-> TRUE, value |-> v]

\* what a provider can do with one request: fail (network error, timeout,
\* non-2xx status, body of another shape), answer with no completion, or
\* answer with a text
ProviderReplies(texts) ==
  {[kind |-> "error"], [kind |-> "empty"]} \cup {[kind |-> "text", text |-> c] : c \in texts}

json_loads(content) ==
  IF content.doc THEN Ok(content.value) ELSE Raise("ResponseParseFailed")

\* call_llm going on to the messages-style provider when the chat-completion
\* request fails
call_llm_failover(reply) ==
  IF GROQ_API_KEY \/ OPENAI_API_KEY
  THEN IF reply.kind = "text"
       THEN [out |-> Ok(reply.text), sent |-> <<[by |-> "call_llm", to |-> api_base]>>]
       ELSE [out |-> Raise("ProviderCallFailed"),
             sent |-> <<[by |-> "call_llm", to |-> api_base]>>
                      \o (IF ANTHROPIC_API_KEY
                          THEN <<[by |-> "call_llm", to |-> "anthropic"]>> ELSE <<>>)]
  ELSE IF ANTHROPIC_API_KEY
  THEN [out |-> CASE reply.kind = "text" -> Ok(reply.text)
                  [] reply.kind = "error" -> Raise("ProviderCallFailed")
                  [] OTHER -> Raise("NoProviderConfigured"),
        sent |-> <<[by |-> "call_llm", to |-> "anthropic"]>>]
  ELSE [out |-> Raise("NoProviderConfigured"), sent |-> <<>>]

\* call_llm: the outcome and the requests it sent
call_llm(reply) ==
  IF GROQ_API_KEY \/ OPENAI_API_KEY
  THEN [out |-> IF reply.kind = "text" THEN Ok(reply.text) ELSE Raise("ProviderCallFailed"),
        sent |-> <<[by |-> "call_llm", to |-> api_base]>>]
  ELSE IF ANTHROPIC_API_KEY
  THEN [out |-> CASE reply.kind = "text" -> Ok(reply.text)
                  [] reply.kind = "error" -> Raise("ProviderCallFailed")
                  [] OTHER -> Raise("NoProviderConfigured"),
        sent |-> <<[by |-> "call_llm", to |-> "anthropic"]>>]
  ELSE [out |-> Raise("NoProviderConfigured"), sent |-> <<>>]

\* the test taking any credential, the search one included, for an LLM one
llm_configured_any == keys # {}

\* the test that opens the LLM path of interpret_prompt, plan_scene and
\* generate_dialogue
llm_configured == GROQ_API_KEY \/ OPENAI_API_KEY \/ ANTHROPIC_API_KEY

\* the body of the try blocks: content = call_llm(...); data = json.loads(content)
try_llm(reply) ==
  LET r == call_llm(reply)
      d == json_loads(r.out.v)
  IN IF ~r.out.ok THEN [ok |-> FALSE, path |-> r.out.exc, sent |-> r.sent]
     ELSE IF ~d.ok THEN [ok |-> FALSE, path |-> d.exc, sent |-> r.sent]
     ELSE [ok |-> TRUE, v |-> d.v, path |-> "llm", sent |-> r.sent]

\* --------------------------------------------------------------- stages
Character(name, role) == JObj([name |-> JStr(name), role |-> JStr(role), traits |-> EmptyObj])

\* interpret_prompt, the code after the LLM block
interpret_heuristic(p) ==
  LET clean == strip(p)
      parts == split_once(clean, L_in)
      topic == IF contains(clean, L_in) THEN rstrip(parts[1], ".") ELSE rstrip(clean, ".")
      setting == IF contains(clean, L_in) THEN rstrip(parts[2], ".") ELSE L_unknown
      low == lower(clean)
      found == (IF contains(low, L_teacher) THEN <<Character(L_Teacher, L_teacher)>> ELSE <<>>)
               \o (IF contains(low, L_student) THEN <<Character(L_Student, L_student)>> ELSE <<>>)
      characters == IF found = <<>> THEN <<Character(L_Narrator, L_narrator)>> ELSE found
  IN JObj([scene_topic |-> JStr(capitalize(topic)),
           setting |-> JStr(setting),
           scene_type |-> JStr(L_conversation),
           characters |-> JList(characters),
           target_length_seconds |-> JInt(150)])

interpret_prompt(p, reply) ==
  LET a == try_llm(reply)
  IN IF llm_configured
     THEN IF a.ok THEN [out |-> Ok(a.v), path |-> "llm", sent |-> a.sent]
          ELSE [out |-> Ok(interpret_heuristic(p)), path |-> a.path, sent |-> a.sent]
     ELSE [out |-> Ok(interpret_heuristic(p)), path |-> "skipped", sent |-> <<>>]

\* d.get(k, default) of a dict d
dict_get(d, k, default) == IF k \in DOMAIN d.f THEN d.f[k] ELSE default

\* web_search, the statements of the try block after the request
search_extract(data) ==
  LET results == dict_get(data, "results", JList(<<>>))
      images == dict_get(data, "images", JList(<<>>))
      rs == Items(results)
      is == Items(images)
  IN IF data.t # "obj" THEN Raise("AttributeError")
     ELSE IF ~Iterable(results) THEN Raise("TypeError")
     ELSE IF \E i \in 1..Len(rs) : rs[i].t # "obj" THEN Raise("AttributeError")
     ELSE IF ~Iterable(images) THEN Raise("TypeError")
     ELSE IF \E i \in 1..Len(is) : is[i].t # "obj" THEN Raise("AttributeError")
     ELSE Ok(JObj([references |->
                     JList([i \in 1..Len(rs) |->
                            dict_get(rs[i], "snippet", dict_get(rs[i], "title", JStr(<<>>)))]),
                   images |-> JList([i \in 1..Len(is) |-> dict_get(is[i], "url", JNull)])]))

\* web_search, the return after the provider block
search_fallback(scene_topic, setting) ==
  JObj([references |-> JList(<<JStr(L_facts \o Format(scene_topic) \o L_gleaned),
                               JStr(L_info \o Format(setting) \o L_background)>>),
        images |-> JList(<<>>)])

web_search(scene_topic, setting, reply) ==
  LET data == json_loads(reply.text)
      x == search_extract(data.v)
      request == <<[by |-> "web_search", to |-> "letta"]>>
      fallback == search_fallback(scene_topic, setting)
  IN IF ~LETTA_API_KEY THEN [out |-> Ok(fallback), path |-> "skipped", sent |-> <<>>]
     ELSE IF reply.kind # "text"
     THEN [out |-> Ok(fallback), path |-> "ProviderCallFailed", sent |-> request]
     ELSE IF ~data.ok THEN [out |-> Ok(fallback), path |-> data.exc, sent |-> request]
     ELSE IF ~x.ok THEN [out |-> Ok(fallback), path |-> "ResponseParseFailed", sent |-> request]
     ELSE [out |-> x, path |-> "provider", sent |-> request]

\* plan_scene, the code after the LLM block
plan_heuristic(metadata) ==
  LET title == Subscript(metadata, "scene_topic")
      background == Subscript(metadata, "setting")
  IN IF ~title.ok THEN title
     ELSE IF ~background.ok THEN background
     ELSE Ok(JObj([scene_title |-> title.v,
                   background |-> background.v,
                   flow |-> JList(<<JStr(L_intro), JStr(L_concept), JStr(L_reaction), JStr(L_wrap)>>),
                   dialogue_turns |-> JInt(8),
                   camera_plan |-> JList(<<JStr(L_wide), JStr(L_closeup), JStr(L_medium), JStr(L_wide)>>)]))

plan_scene(metadata, references, reply) ==
  LET a == try_llm(reply)
  IN IF llm_configured
     THEN IF a.ok THEN [out |-> Ok(a.v), path |-> "llm", sent |-> a.sent]
          ELSE [out |-> plan_heuristic(metadata), path |-> a.path, sent |-> a.sent]
     ELSE [out |-> plan_heuristic(metadata), path |-> "skipped", sent |-> <<>>]

\* the first exception among the outcomes rs, which holds one
FirstRaise(rs) == rs[CHOOSE i \in 1..Len(rs) : ~rs[i].ok /\ \A j \in 1..(i - 1) : rs[j].ok]

\* generate_dialogue: ", ".join(c["name"] for c in characters), which is
\* evaluated before the try block
join_names(characters) ==
  LET cs == Items(characters)
      names == [i \in 1..Len(cs) |-> Subscript(cs[i], "name")]
  IN IF ~Iterable(characters) THEN Raise("TypeError")
     ELSE IF \E i \in 1..Len(cs) : ~names[i].ok THEN FirstRaise(names)
     ELSE IF \E i \in 1..Len(cs) : names[i].v.t # "str" THEN Raise("TypeError")
     ELSE Ok(JNull)

\* generate_dialogue: turns * 40 is defined
can_multiply(turns) == turns.t \in {"int", "float", "str", "list"}

\* generate_dialogue: str(len(lines) + 1) when lines holds count blocks
dialogue_id(count) == str(count + 1)

\* the duration without its floor of 1.5 seconds
line_duration_unfloored(text) == 15 * word_count(text)

\* generate_dialogue: max(1.5, 0.15 * len(text.split())) rounded to 2 places,
\* in hundredths
line_duration(text) ==
  IF 15 * word_count(text) > 150 THEN 15 * word_count(text) ELSE 150

\* the cycle handing out the second item first
cycle_next_from_second(at, k) ==
  IF at = 0 THEN (IF k > 1 THEN 2 ELSE 1) ELSE IF at >= k THEN 1 ELSE at + 1

\* itertools.cycle over k items: the position next() yields after position at
cycle_next(at, k) == IF at >= k THEN 1 ELSE at + 1

\* generate_dialogue: the dict appended in iteration i, lines so far given
dialogue_line(i, lines, name, traits, topic) ==
  LET text == L_line \o str(i) \o L_about \o Format(topic) \o L_dot
  IN JObj([id |-> JStr(dialogue_id(Len(lines))),
           type |-> JStr(L_dialogue),
           character |-> name,
           traits |-> traits,
           emotion |-> JStr(L_neutral),
           text |-> JStr(text),
           duration |-> JFloat(line_duration(text)),
           voice_url |-> JStr(<<>>)])

RECURSIVE dialogue_loop(_, _, _, _, _, _)
\* generate_dialogue: the for loop from iteration i on, the cycle standing at
\* position at
dialogue_loop(i, turns, at, cs, topic, lines) ==
  LET here == cycle_next(at, Len(cs))
      name == Subscript(cs[here], "name")
      traits == Subscript(cs[here], "traits")
  IN IF i > turns THEN Ok(JList(lines))
     ELSE IF cs = <<>> THEN Raise("StopIteration")
     ELSE IF ~name.ok THEN name
     ELSE IF ~traits.ok THEN traits
     ELSE dialogue_loop(i + 1, turns, here, cs, topic,
                        Append(lines, dialogue_line(i, lines, name.v, traits.v, topic)))

\* generate_dialogue, the code after the LLM block
dialogue_heuristic(characters, turns, topic) ==
  IF ~Iterable(characters) \/ turns.t # "int" THEN Raise("TypeError")
  ELSE dialogue_loop(1, turns.n, 0, Items(characters), topic, <<>>)

generate_dialogue(characters, turns, topic, reply) ==
  LET names == join_names(characters)
      a == try_llm(reply)
      fallback == dialogue_heuristic(characters, turns, topic)
  IN IF ~llm_configured THEN [out |-> fallback, path |-> "skipped", sent |-> <<>>]
     ELSE IF ~names.ok THEN [out |-> names, path |-> "aborted", sent |-> <<>>]
     ELSE IF ~can_multiply(turns) THEN [out |-> fallback, path |-> "TypeError", sent |-> <<>>]
     ELSE IF a.ok THEN [out |-> Ok(a.v), path |-> "llm", sent |-> a.sent]
     ELSE [out |-> fallback, path |-> a.path, sent |-> a.sent]

\* add_actions numbering from 1 again: str(idx)
action_id_unshifted(n, idx) == str(idx)

\* add_actions: str(len(dialogue) + idx)
action_id(n, idx) == str(n + idx)

\* add_actions naming the first line's character in every description
add_actions_first_speaker(dlg, characters) ==
  LET ls == Items(dlg)
      n == Len(ls)
      who == [i \in 1..n |-> Subscript(ls[1], "character")]
  IN IF ~Iterable(dlg) THEN Raise("TypeError")
     ELSE IF \E i \in 1..n : ~who[i].ok THEN FirstRaise(who)
     ELSE Ok(JList([idx \in 1..n |->
                      JObj([id |-> JStr(action_id(n, idx)),
                            type |-> JStr(L_action),
                            description |-> JStr(Format(who[idx].v) \o L_gestures),
                            timing |-> JStr(L_after)])]))

add_actions(dlg, characters) ==
  LET ls == Items(dlg)
      n == Len(ls)
      who == [i \in 1..n |-> Subscript(ls[i], "character")]
  IN IF ~Iterable(dlg) THEN Raise("TypeError")
     ELSE IF \E i \in 1..n : ~who[i].ok THEN FirstRaise(who)
     ELSE Ok(JList([idx \in 1..n |->
                      JObj([id |-> JStr(action_id(n, idx)),
                            type |-> JStr(L_action),
                            description |-> JStr(Format(who[idx].v) \o L_gestures),
                            timing |-> JStr(L_after)])]))

\* dialogue + actions: list concatenation, defined for two lists only
structure_script(dlg, acts) ==
  IF dlg.t = "list" /\ acts.t = "list" THEN Ok(JList(dlg.e \o acts.e)) ELSE Raise("TypeError")

\* ------------------------------------------------------ the environment
\* 'Cats'
P_cats == <<"C", "a", "t", "s">>
\* 'A teacher and student talk in class.'
P_class == <<"A", " ", "t", "e", "a", "c", "h", "e", "r", " ", "a", "n", "d", " ", "s", "t", "u", "d", "e", "n", "t", " ", "t", "a", "l", "k", " ", "i", "n", " ", "c", "l", "a", "s", "s", ".">>
\* ' Student in a Box in space.. '
P_box == <<" ", "S", "t", "u", "d", "e", "n", "t", " ", "i", "n", " ", "a", " ", "B", "o", "x", " ", "i", "n", " ", "s", "p", "a", "c", "e", ".", ".", " ">>
\* the prompts run_pipeline is called with
Prompts == {P_cats, P_class, P_box}

W_Dogs == <<"D", "o", "g", "s">>
W_park == <<"p", "a", "r", "k">>
W_Ann == <<"A", "n", "n">>
W_Bob == <<"B", "o", "b">>
W_hi == <<"H", "i">>
W_snip == <<"s", "n", "i", "p">>
W_title == <<"t", "i", "t", "l", "e">>
W_url == <<"u", "r", "l">>

\* the largest dialogue_turns an LLM plan asks for
MaxLLMTurns == 2

\* JSON an LLM answers the Interpret request with: the requested shape, an
\* object without the requested keys, and one whose character has no name
MetaGood ==
  JObj([scene_topic |-> JStr(W_Dogs), setting |-> JStr(W_park), scene_type |-> JStr(L_conversation),
        characters |-> JList(<<Character(W_Ann, L_teacher)>>)])
MetaNameless ==
  JObj([scene_topic |-> JStr(W_Dogs), setting |-> JStr(W_park),
        characters |-> JList(<<JObj([role |-> JStr(L_teacher)])>>)])
InterpretTexts == {Garbage} \cup {Doc(v) : v \in {MetaGood, EmptyObj, MetaNameless}}

\* bodies the search provider answers with: the documented shape, results
\* and images without snippet, title and url, and a JSON array
SearchGood ==
  JObj([results |-> JList(<<JObj([snippet |-> JStr(W_snip)]), JObj([title |-> JStr(W_title)])>>),
        images |-> JList(<<JObj([url |-> JStr(W_url)])>>)])
SearchBare == JObj([results |-> JList(<<EmptyObj>>), images |-> JList(<<EmptyObj>>)])
SearchTexts == {Garbage} \cup {Doc(v) : v \in {SearchGood, SearchBare, JList(<<>>)}}

\* JSON an LLM answers the Plan request with: plans asking for -1, 0 and
\* MaxLLMTurns turns, and an object without dialogue_turns
PlanWith(turns) ==
  JObj([scene_title |-> JStr(W_Dogs), background |-> JStr(W_park), flow |-> JList(<<JStr(L_intro)>>),
        dialogue_turns |-> turns, camera_plan |-> JList(<<JStr(L_wide)>>)])
PlanTexts ==
  {Garbage} \cup {Doc(v) : v \in {PlanWith(JInt(n)) : n \in {-1, 0, MaxLLMTurns}} \cup {EmptyObj}}

\* JSON an LLM answers the Dialogue request with
Spoken(id, type, who) ==
  JObj([id |-> JStr(id), type |-> JStr(type), character |-> JStr(who), text |-> JStr(W_hi),
        duration |-> JFloat(150)])
\* the requested shape
DialogueGood == JList(<<Spoken(str(1), L_dialogue, W_Ann), Spoken(str(2), L_dialogue, W_Bob)>>)
\* an action-typed entry ahead of a dialogue-typed one
DialogueMixed == JList(<<Spoken(str(1), L_action, W_Ann), Spoken(str(2), L_dialogue, W_Bob)>>)
\* ids that are not the positions
DialogueShifted == JList(<<Spoken(str(3), L_dialogue, W_Ann), Spoken(str(4), L_dialogue, W_Bob)>>)
\* an entry without character
DialogueAnonymous == JList(<<JObj([id |-> JStr(str(1)), type |-> JStr(L_dialogue)])>>)
DialogueTexts ==
  {Garbage} \cup
  {Doc(v) : v \in {DialogueGood, DialogueMixed, DialogueShifted, DialogueAnonymous, EmptyObj}}

\* ------------------------------------------------------------- run_pipeline
Returned(v) == [status |-> "returned", script |-> v]
Raised(e) == [status |-> "raised", exc |-> e]

Init ==
  /\ keys \in SUBSET KeyNames
  /\ pc = "idle"
  /\ prompt = <<>>
  /\ meta = Unset
  /\ refs = Unset
  /\ plan = Unset
  /\ dialogue = Unset
  /\ actions = Unset
  /\ result = Unset
  /\ calls = <<>>
  /\ net = <<>>
  /\ seen = {}
  /\ body = Unset
  /\ response = Unset

\* run_pipeline going from Interpret straight to Plan
next_stage_skipping(stage) ==
  CASE stage = "interpret" -> "plan"
    [] stage = "search" -> "plan"
    [] stage = "plan" -> "dialogue"
    [] stage = "dialogue" -> "actions"
    [] OTHER -> "structure"

\* the statement that follows each stage call of run_pipeline
next_stage(stage) ==
  CASE stage = "interpret" -> "search"
    [] stage = "search" -> "plan"
    [] stage = "plan" -> "dialogue"
    [] stage = "dialogue" -> "actions"
    [] OTHER -> "structure"

\* the caller invokes run_pipeline(p)
RunPipeline(p) ==
  /\ pc = "idle"
  /\ pc' = "interpret"
  /\ prompt' = p
  /\ UNCHANGED <<keys, body, response, meta, refs, plan, dialogue, actions, result, calls, net, seen>>

\* an exception leaves run_pipeline
Abort(e) ==
  /\ pc' = "raised"
  /\ result' = Raised(e)

\* a stage call comes back with outcome r
Record(stage, args, r) ==
  /\ calls' = Append(calls, [stage |-> stage, args |-> args, path |-> r.path,
                              out |-> IF r.out.ok THEN r.out.v ELSE Unset])
  /\ net' = net \o r.sent

\* meta = interpret_prompt(prompt)
Interpret ==
  /\ pc = "interpret"
  /\ \E reply \in ProviderReplies(InterpretTexts) :
       LET r == interpret_prompt(prompt, reply)
       IN /\ Record("interpret", <<JStr(prompt)>>, r)
          /\ meta' = r.out.v
          /\ pc' = next_stage("interpret")
  /\ UNCHANGED <<keys, body, response, prompt, refs, plan, dialogue, actions, result, seen>>

\* refs = web_search(meta["scene_topic"], meta["setting"])
Search ==
  /\ pc = "search"
  /\ LET topic == Subscript(meta, "scene_topic")
         setting == Subscript(meta, "setting")
     IN IF ~topic.ok THEN Abort(topic.exc) /\ UNCHANGED <<refs, calls, net>>
        ELSE IF ~setting.ok THEN Abort(setting.exc) /\ UNCHANGED <<refs, calls, net>>
        ELSE \E reply \in ProviderReplies(SearchTexts) :
               LET r == web_search(topic.v, setting.v, reply)
               IN /\ Record("search", <<topic.v, setting.v>>, r)
                  /\ refs' = r.out.v
                  /\ pc' = next_stage("search")
                  /\ UNCHANGED result
  /\ UNCHANGED <<keys, body, response, prompt, meta, plan, dialogue, actions, seen>>

\* plan = plan_scene(meta, refs)
Plan ==
  /\ pc = "plan"
  /\ \E reply \in ProviderReplies(PlanTexts) :
       LET r == plan_scene(meta, refs, reply)
       IN /\ Record("plan", <<meta, refs>>, r)
          /\ IF r.out.ok
             THEN plan' = r.out.v /\ pc' = next_stage("plan") /\ UNCHANGED result
             ELSE Abort(r.out.exc) /\ UNCHANGED plan
  /\ UNCHANGED <<keys, body, response, prompt, meta, refs, dialogue, actions, seen>>

\* dialogue = generate_dialogue(meta["characters"], plan["dialogue_turns"], meta["scene_topic"])
Dialogue ==
  /\ pc = "dialogue"
  /\ LET characters == Subscript(meta, "characters")
         turns == Subscript(plan, "dialogue_turns")
         topic == Subscript(meta, "scene_topic")
     IN IF ~characters.ok THEN Abort(characters.exc) /\ UNCHANGED <<dialogue, calls, net>>
        ELSE IF ~turns.ok THEN Abort(turns.exc) /\ UNCHANGED <<dialogue, calls, net>>
        ELSE IF ~topic.ok THEN Abort(topic.exc) /\ UNCHANGED <<dialogue, calls, net>>
        ELSE \E reply \in ProviderReplies(DialogueTexts) :
               LET r == generate_dialogue(characters.v, turns.v, topic.v, reply)
               IN /\ Record("dialogue", <<characters.v, turns.v, topic.v>>, r)
                  /\ IF r.out.ok
                     THEN dialogue' = r.out.v /\ pc' = next_stage("dialogue") /\ UNCHANGED result
                     ELSE Abort(r.out.exc) /\ UNCHANGED dialogue
  /\ UNCHANGED <<keys, body, response, prompt, meta, refs, plan, actions, seen>>

\* actions = add_actions(dialogue, meta["characters"])
Actions ==
  /\ pc = "actions"
  /\ LET characters == Subscript(meta, "characters")
         r == add_actions(dialogue, characters.v)
     IN IF ~characters.ok THEN Abort(characters.exc) /\ UNCHANGED <<actions, calls, net>>
        ELSE /\ Record("actions", <<dialogue, characters.v>>,
                       [out |-> r, path |-> "skipped", sent |-> <<>>])
             /\ IF r.ok
                THEN actions' = r.v /\ pc' = next_stage("actions") /\ UNCHANGED result
                ELSE Abort(r.exc) /\ UNCHANGED actions
  /\ UNCHANGED <<keys, body, response, prompt, meta, refs, plan, dialogue, seen>>

\* return structure_script(dialogue, actions)
Structure ==
  /\ pc = "structure"
  /\ LET r == structure_script(dialogue, actions)
     IN IF r.ok THEN pc' = "returned" /\ result' = Returned(r.v) ELSE Abort(r.exc)
  /\ UNCHANGED <<keys, body, response, prompt, meta, refs, plan, dialogue, actions, calls, net, seen>>

\* the frame of run_pipeline is discarded
Discard ==
  /\ pc' = "idle"
  /\ prompt' = <<>>
  /\ meta' = Unset
  /\ refs' = Unset
  /\ plan' = Unset
  /\ dialogue' = Unset
  /\ actions' = Unset
  /\ result' = Unset
  /\ calls' = <<>>
  /\ net' = <<>>
  /\ UNCHANGED keys

\* the caller takes the script or the exception
Respond ==
  /\ pc \in {"returned", "raised"}
  /\ Discard
  /\ UNCHANGED <<seen, body, response>>

\* the same, by a caller that keeps what each prompt gave
RespondRecorded ==
  /\ pc \in {"returned", "raised"}
  /\ Discard
  /\ seen' = seen \cup {<<prompt, result>>}
  /\ UNCHANGED <<body, response>>

Next ==
  \/ \E p \in Prompts : RunPipeline(p)
  \/ Interpret
  \/ Search
  \/ Plan
  \/ Dialogue
  \/ Actions
  \/ Structure
  \/ Respond

Spec == Init /\ [][Next]_vars

\* run_pipeline with no credential in the environment, under a caller that
\* keeps the answers
InitBare ==
  /\ Init
  /\ keys = {}

NextRecorded ==
  \/ \E p \in Prompts : RunPipeline(p)
  \/ Interpret
  \/ Search
  \/ Plan
  \/ Dialogue
  \/ Actions
  \/ Structure
  \/ RespondRecorded

SpecRecorded == InitBare /\ [][NextRecorded]_vars

\* ------------------------------------------------------------ app.py
\* 'prompt'
L_prompt == <<"p", "r", "o", "m", "p", "t">>
\* 'Missing prompt'
L_missing == <<"M", "i", "s", "s", "i", "n", "g", " ", "p", "r", "o", "m", "p", "t">>

\* request.get_json(silent=True): None for a body that is not JSON
get_json(b) == IF b.doc THEN b.value ELSE JNull

\* bool(v)
truthy(v) ==
  CASE v.t = "null" -> FALSE
    [] v.t = "obj" -> DOMAIN v.f # {}
    [] v.t = "list" -> v.e # <<>>
    [] v.t = "str" -> v.s # <<>>
    [] v.t = "int" -> v.n # 0
    [] OTHER -> v.h # 0

\* 'prompt' in data: a key of a dict, an element of a list, a substring of a str
prompt_in(data) ==
  CASE data.t = "obj" -> Ok("prompt" \in DOMAIN data.f)
    [] data.t = "list" -> Ok(\E i \in 1..Len(data.e) : data.e[i] = JStr(L_prompt))
    [] data.t = "str" -> Ok(contains(data.s, L_prompt))
    [] OTHER -> Raise("TypeError")

HttpResponse(code, json) == [code |-> code, json |-> json]
\* jsonify({'error': 'Missing prompt'}), 400
BadRequest == HttpResponse(400, JObj([error |-> JStr(L_missing)]))
\* what Flask answers when the view raises
ServerError == HttpResponse(500, JNull)

\* generate_scene up to the call of run_pipeline: a response, or the prompt
\* run_pipeline is called with
generate_scene(b) ==
  LET data == get_json(b)
      has == prompt_in(data)
      p == Subscript(data, "prompt")
  IN IF ~truthy(data) THEN [run |-> FALSE, response |-> BadRequest]
     ELSE IF ~has.ok THEN [run |-> FALSE, response |-> ServerError]
     ELSE IF ~has.v THEN [run |-> FALSE, response |-> BadRequest]
     ELSE IF ~p.ok THEN [run |-> FALSE, response |-> ServerError]
     ELSE [run |-> TRUE, prompt |-> p.v]

\* the bodies POSTed to /generate_scene: text that is not JSON, objects with
\* and without prompt, and JSON arrays, strings and numbers
HttpBodies ==
  {Garbage} \cup
  {Doc(v) : v \in {EmptyObj, JObj([topic |-> JStr(P_cats)]), JObj([prompt |-> JStr(P_cats)]),
                   JObj([prompt |-> JStr(P_class), voice |-> JNull]),
                   JList(<<>>), JList(<<JStr(L_prompt)>>), JStr(L_prompt), JInt(5)}}

\* POST /generate_scene with body b
GenerateScene(b) ==
  /\ pc = "idle"
  /\ body = Unset
  /\ body' = b
  /\ LET o == generate_scene(b)
     IN IF o.run
        THEN pc' = "interpret" /\ prompt' = o.prompt.s /\ response' = Unset
        ELSE pc' = "responded" /\ response' = o.response /\ UNCHANGED prompt
  /\ UNCHANGED <<keys, meta, refs, plan, dialogue, actions, result, calls, net, seen>>

\* return jsonify(script), or the exception of run_pipeline leaves the view
Jsonify ==
  /\ pc \in {"returned", "raised"}
  /\ body # Unset
  /\ pc' = "responded"
  /\ response' = IF pc = "returned" THEN HttpResponse(200, result.script) ELSE ServerError
  /\ UNCHANGED <<keys, body, prompt, meta, refs, plan, dialogue, actions, result, calls, net, seen>>

\* the response is sent and the request is over
Sent ==
  /\ pc = "responded"
  /\ Discard
  /\ body' = Unset
  /\ response' = Unset
  /\ UNCHANGED seen

NextHTTP ==
  \/ \E b \in HttpBodies : GenerateScene(b)
  \/ Interpret
  \/ Search
  \/ Plan
  \/ Dialogue
  \/ Actions
  \/ Structure
  \/ Jsonify
  \/ Sent

SpecHTTP == Init /\ [][NextHTTP]_vars

\* ------------------------------------------------- the stages on their own
\* 'A cat in a box in space'
U_cat == <<"A", " ", "c", "a", "t", " ", "i", "n", " ", "a", " ", "b", "o", "x", " ", "i", "n", " ", "s", "p", "a", "c", "e">>
\* 'A teacher and student talk.'
U_talk == <<"A", " ", "t", "e", "a", "c", "h", "e", "r", " ", "a", "n", "d", " ", "s", "t", "u", "d", "e", "n", "t", " ", "t", "a", "l", "k", ".">>
\* 'A dog barks.'
U_dog == <<"A", " ", "d", "o", "g", " ", "b", "a", "r", "k", "s", ".">>
\* 'student asks TEACHER..'
U_asks == <<"s", "t", "u", "d", "e", "n", "t", " ", "a", "s", "k", "s", " ", "T", "E", "A", "C", "H", "E", "R", ".", ".">>
\* 'the NASA lab in U.S...'
U_lab == <<"t", "h", "e", " ", "N", "A", "S", "A", " ", "l", "a", "b", " ", "i", "n", " ", "U", ".", "S", ".", ".", ".">>
\* 'rain.. in Spain'
U_rain == <<"r", "a", "i", "n", ".", ".", " ", "i", "n", " ", "S", "p", "a", "i", "n">>
\* ' in a box'
U_lead == <<" ", "i", "n", " ", "a", " ", "b", "o", "x">>
\* '...'
U_dots == <<".", ".", ".">>
\* 'Cy'
W_Cy == <<"C", "y">>
\* 'a b  c d e f g'
U_long == <<"a", " ", "b", " ", " ", "c", " ", "d", " ", "e", " ", "f", " ", "g">>

\* the largest turns generate_dialogue is called with directly
MaxTurns == 5

\* prompts interpret_prompt is called with directly
UnitPrompts == Prompts \cup {U_cat, U_talk, U_dog, U_asks, U_lab, U_rain, U_lead, U_dots, L_Teacher}

\* character lists of one, two and three characters
Cast(names) == JList([i \in 1..Len(names) |-> Character(names[i], L_narrator)])
UnitCasts == {Cast(<<W_Ann>>), Cast(<<W_Ann, W_Bob>>), Cast(<<W_Ann, W_Bob, W_Cy>>)}

\* topics of one word and of seven words
UnitTopics == {JStr(W_Dogs), JStr(U_long)}

\* dialogues add_actions is called with directly: what the heuristic builds
\* and what an LLM sent
UnitDialogues ==
  {DialogueGood, DialogueMixed, DialogueShifted, DialogueAnonymous, EmptyObj, JList(<<>>)}
  \cup {dialogue_heuristic(c, JInt(MaxTurns), JStr(W_Dogs)).v : c \in UnitCasts}

\* a direct call of one stage comes back with outcome r
Alone(stage, args, r) ==
  /\ pc = "idle"
  /\ pc' = "unit"
  /\ calls' = <<[stage |-> stage, args |-> args, path |-> r.path,
                 out |-> IF r.out.ok THEN r.out.v ELSE Unset]>>
  /\ net' = r.sent
  /\ UNCHANGED <<keys, body, response, prompt, meta, refs, plan, dialogue, actions, result, seen>>

\* interpret_prompt(p)
UnitInterpret(p) ==
  \E reply \in ProviderReplies(InterpretTexts) :
    Alone("interpret", <<JStr(p)>>, interpret_prompt(p, reply))

\* generate_dialogue(characters, turns, topic)
UnitDialogue(characters, turns, topic) ==
  \E reply \in ProviderReplies(DialogueTexts) :
    Alone("dialogue", <<characters, JInt(turns), topic>>,
          generate_dialogue(characters, JInt(turns), topic, reply))

\* add_actions(dlg, characters)
UnitActions(dlg, characters) ==
  Alone("actions", <<dlg, characters>>,
        [out |-> add_actions(dlg, characters), path |-> "skipped", sent |-> <<>>])

NextUnit ==
  \/ \E p \in UnitPrompts : UnitInterpret(p)
  \/ \E c \in UnitCasts : \E t \in (-1)..MaxTurns : \E topic \in UnitTopics : UnitDialogue(c, t, topic)
  \/ \E d \in UnitDialogues : \E c \in UnitCasts : UnitActions(d, c)

SpecUnit == Init /\ [][NextUnit]_vars

\* ---------------------------------------------------------------- claims
\* the blocks of the script run_pipeline returned
Blocks == result.script.e

HasType(b, type) == b.t = "obj" /\ "type" \in DOMAIN b.f /\ b.f.type = JStr(type)

DialogueBlocks == {i \in 1..Len(Blocks) : HasType(Blocks[i], L_dialogue)}
ActionBlocks == {i \in 1..Len(Blocks) : HasType(Blocks[i], L_action)}

\* the call record of a stage of this invocation
CallOf(stage) == calls[CHOOSE i \in 1..Len(calls) : calls[i].stage = stage]
Called(stage) == \E i \in 1..Len(calls) : calls[i].stage = stage

\* v is a dict that has every key of ks
HasKeys(v, ks) == v.t = "obj" /\ ks \subseteq DOMAIN v.f

\* the keys the three LLM requests ask for
MetaKeys == {"scene_topic", "setting", "scene_type", "characters"}
PlanKeys == {"scene_title", "background", "flow", "dialogue_turns", "camera_plan"}
LineKeys == {"id", "type", "character", "text", "duration"}

\* C1: in the script run_pipeline returns, no Action block is followed by a
\* Dialogue block, whatever the providers answered.
C1_DialogueBeforeActions ==
  pc = "returned" => \A i \in ActionBlocks : \A j \in DialogueBlocks : j < i

\* C2: no failure reaches the caller of run_pipeline, whatever the providers
\* do: run_pipeline never raises.
C2_NeverRaises == pc # "raised"

\* the LLM path of a stage call failed: not attempted for want of a provider,
\* the call raised, the text was not JSON, or the JSON lacks the expected keys
LLMPathFailed(call, expected) ==
  \/ call.path # "llm"
  \/ IF expected = LineKeys
     THEN call.out.t # "list" \/ \E i \in 1..Len(call.out.e) : ~HasKeys(call.out.e[i], expected)
     ELSE ~HasKeys(call.out, expected)

\* C3: when the LLM path of Interpret, Plan or Dialogue fails, the stage
\* returns what its deterministic heuristic yields for the same arguments and
\* raises nothing.
C3_FallbackOnFailure ==
  /\ (Called("interpret") /\ LLMPathFailed(CallOf("interpret"), MetaKeys))
       => CallOf("interpret").out = interpret_heuristic(prompt)
  /\ (Called("plan") /\ LLMPathFailed(CallOf("plan"), PlanKeys))
       => Ok(CallOf("plan").out) = plan_heuristic(meta)
  /\ (Called("dialogue") /\ LLMPathFailed(CallOf("dialogue"), LineKeys))
       => Ok(CallOf("dialogue").out)
            = dialogue_heuristic(CallOf("dialogue").args[1], CallOf("dialogue").args[2],
                                 CallOf("dialogue").args[3])

\* C4: when the Dialogue stage ran its heuristic, the returned script has
\* exactly plan.dialogue_turns Dialogue blocks and as many Action blocks.
C4_TurnsBlocks ==
  (pc = "returned" /\ CallOf("dialogue").path # "llm")
    => /\ Cardinality(DialogueBlocks) = plan.f.dialogue_turns.n
       /\ Cardinality(ActionBlocks) = plan.f.dialogue_turns.n

\* C5: the ids of all blocks of a returned script are pairwise distinct
\* strings.
C5_UniqueIds ==
  pc = "returned" =>
    /\ \A i \in 1..Len(Blocks) : HasKeys(Blocks[i], {"id"}) /\ Blocks[i].f.id.t = "str"
    /\ \A i, j \in 1..Len(Blocks) : i # j => Blocks[i].f.id # Blocks[j].f.id

RECURSIVE DecimalValue(_)
\* the number a string of digits denotes
DecimalValue(s) ==
  IF s = <<>> THEN 0
  ELSE 10 * DecimalValue(SubSeq(s, 1, Len(s) - 1)) + (IndexIn(s[Len(s)], Digits) - 1)

\* the id of block b is the decimal numeral of k, without sign or leading zero
IdIs(b, k) ==
  /\ HasKeys(b, {"id"})
  /\ b.f.id.t = "str"
  /\ Len(b.f.id.s) >= 1
  /\ \A i \in 1..Len(b.f.id.s) : IndexIn(b.f.id.s[i], Digits) > 0
  /\ Len(b.f.id.s) > 1 => b.f.id.s[1] # "0"
  /\ DecimalValue(b.f.id.s) = k

\* C6: when the heuristic produced the n dialogue blocks, the script holds
\* the Dialogue blocks with ids "1".."n" in order, then the Action blocks with
\* ids "n+1".."2n" in order, and no Action id equals a Dialogue id.
C6_PositionalIds ==
  (pc = "returned" /\ CallOf("dialogue").path # "llm") =>
    LET n == Len(dialogue.e)
    IN /\ Len(Blocks) = 2 * n
       /\ \A i \in 1..Len(Blocks) : IdIs(Blocks[i], i)
       /\ DialogueBlocks = 1..n
       /\ ActionBlocks = (n + 1)..(2 * n)
       /\ \A i \in DialogueBlocks : \A j \in ActionBlocks : Blocks[i].f.id # Blocks[j].f.id

\* a heuristic dialogue of 8 lines after a failed LLM call came back with its
\* 8 actions: the ids run to "16"
C6_Witness ==
  /\ pc = "returned"
  /\ CallOf("dialogue").path = "ResponseParseFailed"
  /\ Len(dialogue.e) = 8
  /\ Len(Blocks) = 16

\* everything the recording caller has got, the answer in hand included
Answers == seen \cup (IF pc \in {"returned", "raised"} THEN {<<prompt, result>>} ELSE {})

\* C7: with no credential configured, any two invocations of run_pipeline with
\* the same prompt give the same answer, whatever ran in between.
C7_SamePromptSameScript ==
  \A a \in Answers : \A b \in Answers : a[1] = b[1] => a[2] = b[2]

\* a prompt is answered a second time, after another prompt was answered
C7_Witness ==
  /\ pc = "returned"
  /\ \E a \in seen : a[1] = prompt
  /\ \E a \in seen : a[1] # prompt

StageOrder == <<"interpret", "search", "plan", "dialogue", "actions">>

\* C8: the stage calls of an invocation are Interpret, Search, Plan, Dialogue,
\* Actions in that order, each once and each after the previous one returned;
\* when run_pipeline returns all five ran, each on the outputs of the earlier
\* ones, and the script is Dialogue's output followed by Actions'.
C8_StagesInOrder ==
  /\ Len(calls) <= Len(StageOrder)
  /\ \A i \in 1..Len(calls) : calls[i].stage = StageOrder[i]
  /\ \A i \in 1..(Len(calls) - 1) : calls[i].out # Unset
  /\ pc = "returned" =>
       /\ Len(calls) = Len(StageOrder)
       /\ calls[1].args = <<JStr(prompt)>>
       /\ calls[2].args = <<calls[1].out.f.scene_topic, calls[1].out.f.setting>>
       /\ calls[3].args = <<calls[1].out, calls[2].out>>
       /\ calls[4].args = <<calls[1].out.f.characters, calls[3].out.f.dialogue_turns,
                            calls[1].out.f.scene_topic>>
       /\ calls[5].args = <<calls[4].out, calls[1].out.f.characters>>
       /\ result.script = JList(calls[4].out.e \o calls[5].out.e)

\* run_pipeline returned after Interpret and Plan took the LLM's JSON
C8_Witness ==
  /\ pc = "returned"
  /\ Len(calls) = 5
  /\ calls[1].path = "llm"
  /\ calls[3].path = "llm"

NoLLMCredential == keys \cap {"GROQ_API_KEY", "OPENAI_API_KEY", "ANTHROPIC_API_KEY"} = {}

\* C9: without an LLM credential, Interpret, Plan and Dialogue do not call
\* call_llm and return their heuristics' results; without any credential,
\* run_pipeline sends no request.
C9_NoCredentialNoRequest ==
  /\ NoLLMCredential =>
       /\ \A i \in 1..Len(calls) : calls[i].stage # "search" => calls[i].path = "skipped"
       /\ \A i \in 1..Len(net) : net[i].by # "call_llm"
       /\ Called("interpret") => CallOf("interpret").out = interpret_heuristic(prompt)
       /\ Called("plan") => Ok(CallOf("plan").out) = plan_heuristic(CallOf("plan").args[1])
       /\ Called("dialogue") =>
            Ok(CallOf("dialogue").out)
              = dialogue_heuristic(CallOf("dialogue").args[1], CallOf("dialogue").args[2],
                                   CallOf("dialogue").args[3])
  /\ keys = {} => net = <<>>

\* run_pipeline returned with the search credential alone: one request went
\* out, to the search provider
C9_Witness ==
  /\ keys = {"LETTA_API_KEY"}
  /\ pc = "returned"
  /\ net = <<[by |-> "web_search", to |-> "letta"]>>

\* v is a References value: lists of strings under references and images
ValidReferences(v) ==
  /\ HasKeys(v, {"references", "images"})
  /\ v.f.references.t = "list"
  /\ v.f.images.t = "list"
  /\ \A i \in 1..Len(v.f.references.e) : v.f.references.e[i].t = "str"
  /\ \A i \in 1..Len(v.f.images.e) : v.f.images.e[i].t = "str"

\* C10: web_search never raises and returns a References value, whatever the
\* search provider does.
C10_SearchAlwaysValid ==
  Called("search") => ValidReferences(CallOf("search").out)

\* the stage call went through call_llm: its LLM block ran up to the call
UsedGateway(call) ==
  /\ call.stage \in {"interpret", "plan", "dialogue"}
  /\ call.path \in {"llm", "ProviderCallFailed", "NoProviderConfigured", "ResponseParseFailed"}

\* the requests of call_llm among the outbound requests, in order
LLMRequests == LET ByGateway(r) == r.by = "call_llm" IN SelectSeq(net, ByGateway)

\* the provider the credentials select: the primary chat-completion one, else
\* the secondary one, else the messages-style one
ActiveProvider ==
  IF "GROQ_API_KEY" \in keys THEN "groq"
  ELSE IF "OPENAI_API_KEY" \in keys THEN "openai"
  ELSE IF "ANTHROPIC_API_KEY" \in keys THEN "anthropic"
  ELSE "none"

\* C11: every call of call_llm sends exactly one request, to the provider the
\* credentials select by priority; a failed request is followed by no other
\* request, neither to the same provider nor to the messages-style one.
C11_OneRequestByPriority ==
  /\ Len(LLMRequests) = Cardinality({i \in 1..Len(calls) : UsedGateway(calls[i])})
  /\ \A i \in 1..Len(LLMRequests) : LLMRequests[i].to = ActiveProvider

\* with all three LLM credentials set, Interpret's request failed: one request
\* went out, to the primary chat-completion provider
C11_Witness ==
  /\ keys = {"GROQ_API_KEY", "OPENAI_API_KEY", "ANTHROPIC_API_KEY"}
  /\ Called("interpret")
  /\ CallOf("interpret").path = "ProviderCallFailed"
  /\ net = <<[by |-> "call_llm", to |-> "groq"]>>

\* the body carries no prompt field: it is not JSON, or not a JSON object, or
\* an object without the key prompt
PromptAbsent(b) == ~b.doc \/ ~HasKeys(b.value, {"prompt"})

\* C12: a request without a prompt field is answered 400 "Missing prompt"
\* and run_pipeline is not invoked; any other request invokes run_pipeline
\* once, with the prompt field.
C12_MissingPrompt400 ==
  body # Unset =>
    IF PromptAbsent(body)
    THEN pc = "responded" /\ response = BadRequest /\ calls = <<>> /\ prompt = <<>>
    ELSE /\ pc # "idle"
         /\ prompt = body.value.f.prompt.s
         /\ pc # "interpret" => Cardinality({i \in 1..Len(calls) : calls[i].stage = "interpret"}) = 1

\* the record of the stage call made on its own
TheCall == calls[1]

\* the stage call made on its own ran the stage's heuristic
RanHeuristic(stage) ==
  /\ pc = "unit"
  /\ TheCall.stage = stage
  /\ TheCall.path \notin {"llm", "aborted"}

\* C13: the Dialogue heuristic, given k >= 1 characters and turns t >= 0,
\* returns t blocks, block i spoken by character ((i-1) mod k) + 1 of the list.
C13_RoundRobin ==
  (RanHeuristic("dialogue") /\ TheCall.args[2].n >= 0) =>
    LET c == TheCall.args[1].e
        t == TheCall.args[2].n
    IN /\ TheCall.out # Unset
       /\ Len(TheCall.out.e) = t
       /\ \A i \in 1..t : TheCall.out.e[i].f.character = c[((i - 1) % Len(c)) + 1].f.name

\* five turns over three characters: the list is gone through once and begun
\* again
C13_Witness ==
  /\ RanHeuristic("dialogue")
  /\ Len(TheCall.args[1].e) = 3
  /\ TheCall.args[2].n = 5
  /\ TheCall.out # Unset
  /\ TheCall.out.e[4].f.character = JStr(W_Ann)

\* what the call made on its own was given and returned
ThePrompt == TheCall.args[1].s
TheTopic == TheCall.out.f.scene_topic.s
TheSetting == TheCall.out.f.setting.s

\* s from its first to its last character that is not a space
Trimmed(s) ==
  LET at == {i \in 1..Len(s) : s[i] # " "}
  IN IF at = {} THEN <<>>
     ELSE SubSeq(s, CHOOSE i \in at : \A j \in at : i <= j, CHOOSE i \in at : \A j \in at : j <= i)

\* s up to its last character that is not a period
NoDots(s) ==
  LET at == {i \in 1..Len(s) : s[i] # "."}
  IN IF at = {} THEN <<>> ELSE SubSeq(s, 1, CHOOSE i \in at : \A j \in at : j <= i)

\* the same text, letter case and trailing periods set aside
Alike(a, b) ==
  LET x == NoDots(a)
      y == NoDots(b)
  IN Len(x) = Len(y) /\ \A i \in 1..Len(x) : lower_char(x[i]) = lower_char(y[i])

\* the places of the trimmed prompt where " in " begins
InAt == {i \in 1..(Len(Trimmed(ThePrompt)) - 3) : SubSeq(Trimmed(ThePrompt), i, i + 3) = L_in}
FirstIn == CHOOSE i \in InAt : \A j \in InAt : i <= j

\* the trimmed prompt before its first " in " (all of it when it has none), and
\* after it
RawTopic == IF InAt = {} THEN Trimmed(ThePrompt) ELSE SubSeq(Trimmed(ThePrompt), 1, FirstIn - 1)
RawSetting == SubSeq(Trimmed(ThePrompt), FirstIn + 4, Len(Trimmed(ThePrompt)))

\* C14: the Interpret heuristic splits the trimmed prompt at the first " in "
\* only: what stands before it is the topic, all that follows it (further
\* " in " included) is the setting; without " in " the whole trimmed prompt is
\* the topic and the setting is "unknown". Topic and setting are compared with
\* letter case and trailing periods set aside.
C14_SplitAtFirstIn ==
  RanHeuristic("interpret") =>
    /\ Alike(TheTopic, RawTopic)
    /\ IF InAt = {} THEN TheSetting = L_unknown ELSE NoDots(TheSetting) = NoDots(RawSetting)

\* "A cat in a box in space" gives topic "A cat", setting "a box in space"
C14_Witness ==
  /\ RanHeuristic("interpret")
  /\ ThePrompt = U_cat
  /\ TheTopic = SubSeq(U_cat, 1, 5)
  /\ TheSetting = SubSeq(U_cat, 10, 23)

\* word occurs in the prompt, letter case set aside
Mentions(word) ==
  \E i \in 1..(Len(ThePrompt) - Len(word) + 1) :
    \A j \in 1..Len(word) : lower_char(ThePrompt[i + j - 1]) = word[j]

\* the names of the characters returned, in order
TheNames == [i \in 1..Len(TheCall.out.f.characters.e) |-> TheCall.out.f.characters.e[i].f.name.s]

\* C15: the Interpret heuristic returns Teacher then Student when the prompt
\* holds both keywords in any letter case and any order, the one of them it
\* holds when it holds one, and Narrator alone when it holds neither.
C15_KeywordCharacters ==
  RanHeuristic("interpret") =>
    TheNames = CASE Mentions(L_teacher) /\ Mentions(L_student) -> <<L_Teacher, L_Student>>
                 [] Mentions(L_teacher) /\ ~Mentions(L_student) -> <<L_Teacher>>
                 [] ~Mentions(L_teacher) /\ Mentions(L_student) -> <<L_Student>>
                 [] OTHER -> <<L_Narrator>>

\* "student asks TEACHER..": student first and teacher in capitals, Teacher is
\* still the first character
C15_Witness ==
  /\ RanHeuristic("interpret")
  /\ ThePrompt = U_asks
  /\ TheNames = <<L_Teacher, L_Student>>

\* s without its last character when that is a period
DropOnePeriod(s) == IF s # <<>> /\ s[Len(s)] = "." THEN SubSeq(s, 1, Len(s) - 1) ELSE s

\* s in lower case, letter by letter
Folded(s) == [i \in 1..Len(s) |-> lower_char(s[i])]

\* C18: the Interpret heuristic removes at most one trailing period from the
\* topic and at most one from the setting: k >= 1 trailing periods come out as
\* k-1, and a text not ending in a period is unchanged. The topic is compared
\* with letter case set aside.
C18_OneTrailingPeriod ==
  RanHeuristic("interpret") =>
    /\ Folded(TheTopic) = Folded(DropOnePeriod(RawTopic))
    /\ InAt # {} => TheSetting = DropOnePeriod(RawSetting)

\* C19: in the Interpret heuristic scene_topic is the topic with only its
\* first letter changed to upper case: every later character is the topic's
\* own, upper-case letters included.
C19_OnlyFirstLetterChanged ==
  RanHeuristic("interpret") =>
    /\ Len(TheTopic) <= Len(RawTopic)
    /\ \A i \in 1..Len(TheTopic) :
         TheTopic[i] = IF i = 1 THEN upper_char(RawTopic[i]) ELSE RawTopic[i]

\* C16: call_llm fails with NoProviderConfigured only when no LLM credential
\* is configured; with a chat-completion or messages credential present a call
\* returns text or fails with a provider-call failure.
C16_NoProviderOnlyWithoutCredential ==
  \A i \in 1..Len(calls) : calls[i].path = "NoProviderConfigured" => NoLLMCredential

\* d is a sequence of blocks that each name their character
NamesSpeakers(d) ==
  /\ d.t = "list"
  /\ \A i \in 1..Len(d.e) : HasKeys(d.e[i], {"character"}) /\ d.e[i].f.character.t = "str"

Words(s) == Cardinality({i \in 1..Len(s) : s[i] # " " /\ (i = Len(s) \/ s[i + 1] = " ")})

\* C20: every block of the Dialogue heuristic has duration max(1.5, 0.15 * n)
\* rounded to 2 places, n the number of whitespace-separated words of the
\* block's text: in hundredths max(150, 15 * n), never below 150.
C20_DurationFormula ==
  (RanHeuristic("dialogue") /\ TheCall.out # Unset) =>
    \A i \in 1..Len(TheCall.out.e) :
      LET n == Words(TheCall.out.e[i].f.text.s)
          d == TheCall.out.e[i].f.duration
      IN /\ d = JFloat(IF 15 * n >= 150 THEN 15 * n ELSE 150)
         /\ d.h >= 150

\* a topic of seven words makes a text of twelve: 1.8 seconds
C20_Witness ==
  /\ RanHeuristic("dialogue")
  /\ TheCall.args[3] = JStr(U_long)
  /\ TheCall.out # Unset
  /\ Len(TheCall.out.e) >= 1
  /\ Words(TheCall.out.e[1].f.text.s) = 12
  /\ TheCall.out.e[1].f.duration = JFloat(180)
====
